---- MODULE Spec2Model ----
(***************************************************************************)
(* Model of src/lambda/invoke.py: the response-extraction pipeline of the  *)
(* agent-invoking Lambda (lambda_handler, get_agent_response,              *)
(* extract_source_list_from_kb, source_link, extract_sql_query).           *)
(*                                                                         *)
(* Representation of Python values:                                        *)
(*   - a str is a sequence of tokens (each token a TLA+ string standing    *)
(*     for a run of characters); the empty str is << >>;                   *)
(*   - bytes are sequences of integers in 0..255;                          *)
(*   - a value that may be None, a str or a list is a record               *)
(*     [t, s, l] with t in {"None","str","list"}.                          *)
(***************************************************************************)
EXTENDS Integers, Sequences, FiniteSets, TLC

\* ---------------------------------------------------------------- bounds
MaxEvents == 3      \* longest event stream explored by Spec
MaxText == 4        \* longest text (in tokens) explored by SpecSql
MaxKeys == 3        \* longest key sequence explored by SpecLink

\* ------------------------------------------------------- Python values
PyNone == [t |-> "None", s |-> << >>, l |-> << >>]
PyStr(x) == [t |-> "str", s |-> x, l |-> << >>]
PyList(x) == [t |-> "list", s |-> << >>, l |-> x]

\* Python truthiness of a None / str / list value
Truthy(v) == \/ v.t = "str" /\ v.s # << >>
             \/ v.t = "list" /\ v.l # << >>

\* chunk_text is a local that is unbound until the first assignment
Unbound == [bound |-> FALSE, v |-> << >>]
Bound(x) == [bound |-> TRUE, v |-> x]

\* ------------------------------------------------- bytes.decode("utf-8")
\* Result: [ok |-> TRUE, text |-> code points] or ok = FALSE
\* (UnicodeDecodeError).  One- and two-byte sequences are modelled; every
\* other lead byte is rejected (the model's byte alphabet has no 3/4-byte
\* sequences).
RECURSIVE Utf8Decode(_)
Utf8Decode(b) ==
  IF b = << >> THEN [ok |-> TRUE, text |-> << >>]
  ELSE IF b[1] < 128
       THEN LET r == Utf8Decode(Tail(b))
            IN  IF r.ok THEN [ok |-> TRUE, text |-> <<b[1]>> \o r.text]
                ELSE r
  ELSE IF /\ b[1] >= 194 /\ b[1] <= 223 /\ Len(b) >= 2
          /\ b[2] >= 128 /\ b[2] <= 191
       THEN LET r == Utf8Decode(Tail(Tail(b)))
            IN  IF r.ok
                THEN [ok |-> TRUE,
                      text |-> <<(b[1] - 192) * 64 + (b[2] - 128)>> \o r.text]
                ELSE r
  ELSE [ok |-> FALSE, text |-> << >>]

\* -------------------------------------------------------- str.strip()
IsSpace(tok) == tok \in {" ", "\n"}

RECURSIVE LStrip(_)
LStrip(s) == IF s # << >> /\ IsSpace(s[1]) THEN LStrip(Tail(s)) ELSE s

RECURSIVE RStrip(_)
RStrip(s) == IF s # << >> /\ IsSpace(s[Len(s)])
             THEN RStrip(SubSeq(s, 1, Len(s) - 1)) ELSE s

Strip(s) == RStrip(LStrip(s))

\* ---------------------------------------------------- extract_sql_query
\* Tokens of the text model.  re.IGNORECASE makes both spellings of each
\* keyword match.
IsSelect(tok) == tok \in {"SELECT", "select"}
IsReturnedInfo(tok) == tok \in {"Returned information", "RETURNED INFORMATION"}

\* `$' without re.MULTILINE: at end of string, or just before a newline
\* that is the last character
AtDollar(s, k) == \/ k = Len(s) + 1
                  \/ k = Len(s) /\ s[k] = "\n"

\* the lookahead (?=\n\s*(?:Returned information|$)) at position e
Lookahead(s, e) ==
  /\ e <= Len(s)
  /\ s[e] = "\n"
  /\ \E k \in (e + 1)..(Len(s) + 1) :
        /\ \A j \in (e + 1)..(k - 1) : IsSpace(s[j])
        /\ \/ k <= Len(s) /\ IsReturnedInfo(s[k])
           \/ AtDollar(s, k)

\* end positions at which (SELECT.*?) starting at st can stop
MatchEnds(s, st) == {e \in (st + 1)..Len(s) : Lookahead(s, e)}

\* start positions at which the pattern matches
MatchStarts(s) == {st \in 1..Len(s) : IsSelect(s[st]) /\ MatchEnds(s, st) # {}}

Min(S) == CHOOSE x \in S : \A y \in S : x <= y

\* re.search: leftmost start, lazy .*? takes the nearest end;
\* returns match.group(1).strip() or None
extract_sql_query(input_string) ==
  IF MatchStarts(input_string) = {} THEN PyNone
  ELSE LET st == Min(MatchStarts(input_string))
           e == Min(MatchEnds(input_string, st))
       IN  PyStr(Strip(SubSeq(input_string, st, e - 1)))

\* ------------------------------------------------------- object store
\* Storage keys (URIs) as token sequences.
KeyA == <<"s3:", "//", "bkt", "/", "a">>
KeyA2 == <<"s3:", "//", "bkt", "/", "a2">>
KeyB == <<"s3:", "//", "bkt", "/", "b">>
KeyBin == <<"s3:", "//", "bkt", "/", "bin">>
KeyNoUrl == <<"s3:", "//", "bkt", "/", "nourl">>
KeyDbl == <<"s3:", "//", "bkt", "/", "a", "//", "x">>
KeyNoScheme == <<"bkt", "/", "a">>

\* file.get()["Body"].read(): the bytes stored under (bucket, obj), or
\* found = FALSE (the get() call raises ClientError / NoSuchKey)
S3Get(bucket, obj) ==
  IF bucket # <<"bkt">> THEN [found |-> FALSE, bytes |-> << >>]
  ELSE IF obj = <<"a">> THEN [found |-> TRUE, bytes |-> <<65>>]
  ELSE IF obj = <<"a2">> THEN [found |-> TRUE, bytes |-> <<65>>]
  ELSE IF obj = <<"b">> THEN [found |-> TRUE, bytes |-> <<66>>]
  ELSE IF obj = <<"bin">> THEN [found |-> TRUE, bytes |-> <<255>>]
  ELSE IF obj = <<"nourl">> THEN [found |-> TRUE, bytes |-> <<195, 169>>]
  ELSE [found |-> FALSE, bytes |-> << >>]

\* json.loads on the decoded documents of the bucket: the text <<65>>
\* abbreviates {"Url": "L1", "Topic": "A"}, <<66>> abbreviates
\* {"Url": "L2", "Topic": "B"}, <<233>> abbreviates {"Topic": "A"}
\* (no Url); any other text is not JSON (JSONDecodeError).
JsonLoads(text) ==
  IF text = <<65>>
  THEN [ok |-> TRUE, hasUrl |-> TRUE, Url |-> "L1", hasTopic |-> TRUE, Topic |-> "A"]
  ELSE IF text = <<66>>
  THEN [ok |-> TRUE, hasUrl |-> TRUE, Url |-> "L2", hasTopic |-> TRUE, Topic |-> "B"]
  ELSE IF text = <<233>>
  THEN [ok |-> TRUE, hasUrl |-> FALSE, Url |-> "", hasTopic |-> TRUE, Topic |-> "A"]
  ELSE [ok |-> FALSE, hasUrl |-> FALSE, Url |-> "", hasTopic |-> FALSE, Topic |-> ""]

\* str.split(sep) for a one-token separator: the list of segments
RECURSIVE Split(_, _)
Split(s, sep) ==
  IF \A j \in 1..Len(s) : s[j] # sep THEN <<s>>
  ELSE LET p == Min({j \in 1..Len(s) : s[j] = sep})
       IN  <<SubSeq(s, 1, p - 1)>> \o Split(SubSeq(s, p + 1, Len(s)), sep)

\* str.partition(sep): <<head, sep, tail>>, or <<s, "", "">> without sep
Partition(s, sep) ==
  IF \A j \in 1..Len(s) : s[j] # sep THEN <<s, << >>, << >> >>
  ELSE LET p == Min({j \in 1..Len(s) : s[j] = sep})
       IN  <<SubSeq(s, 1, p - 1), <<sep>>, SubSeq(s, p + 1, Len(s))>>

NoPair == <<"", "">>

\* lines 94-96: string = input_source.split("//")[1] (IndexError when
\* there is no "//"), bucket and obj by partition("/")
Locate(input_source) ==
  LET parts == Split(input_source, "//")
  IN  IF Len(parts) < 2
      THEN [ok |-> FALSE, bucket |-> << >>, obj |-> << >>]
      ELSE [ok |-> TRUE, bucket |-> Partition(parts[2], "/")[1],
            obj |-> Partition(parts[2], "/")[3]]

\* a decode failure leaves the loop instead of being swallowed
ResolveBodyAbort(body) ==
  LET dec == Utf8Decode(body)
  IN  IF ~dec.ok
      THEN [status |-> "UnicodeDecodeError", fetched |-> TRUE, pair |-> NoPair]
      ELSE
      LET res == JsonLoads(dec.text)
      IN  IF ~res.ok
          THEN [status |-> "JSONDecodeError", fetched |-> TRUE, pair |-> NoPair]
          ELSE IF ~res.hasUrl \/ ~res.hasTopic
          THEN [status |-> "KeyError", fetched |-> TRUE, pair |-> NoPair]
          ELSE [status |-> "ok", fetched |-> TRUE, pair |-> <<res.Topic, res.Url>>]

\* lines 99-107: the try block on the bytes read.  status "ok" appends
\* pair, "skip" is the swallowed UnicodeDecodeError, any other status is
\* the exception that leaves source_link.
ResolveBody(body) ==
  LET dec == Utf8Decode(body)
  IN  IF ~dec.ok
      THEN [status |-> "skip", fetched |-> TRUE, pair |-> NoPair]
      ELSE
      LET res == JsonLoads(dec.text)
      IN  IF ~res.ok
          THEN [status |-> "JSONDecodeError", fetched |-> TRUE, pair |-> NoPair]
          ELSE IF ~res.hasUrl \/ ~res.hasTopic
          THEN [status |-> "KeyError", fetched |-> TRUE, pair |-> NoPair]
          ELSE [status |-> "ok", fetched |-> TRUE, pair |-> <<res.Topic, res.Url>>]

\* lines 94-107: one iteration of the loop of source_link over
\* input_source; fetched tells whether file.get() was called.
Resolve(input_source) ==
  LET loc == Locate(input_source)
  IN  IF ~loc.ok
      THEN [status |-> "IndexError", fetched |-> FALSE, pair |-> NoPair]
      ELSE LET got == S3Get(loc.bucket, loc.obj)
           IN  IF ~got.found
               THEN [status |-> "ClientError", fetched |-> TRUE, pair |-> NoPair]
               ELSE ResolveBody(got.bytes)

\* no deduplication
OrderedUniqueKeepAll(l) == l

\* list(OrderedDict.fromkeys(source_dict_list))
RECURSIVE OrderedUnique(_)
OrderedUnique(l) ==
  IF l = << >> THEN << >>
  ELSE LET init == OrderedUnique(SubSeq(l, 1, Len(l) - 1))
           x == l[Len(l)]
       IN  IF \E j \in 1..Len(init) : init[j] = x THEN init
           ELSE Append(init, x)

\* the rendering loop: refs_str += f"{i}. [{title}]({link})\n\n", i from 1
RECURSIVE RenderRefs(_)
RenderRefs(unique_sources) ==
  IF unique_sources = << >> THEN << >>
  ELSE LET n == Len(unique_sources)
       IN  RenderRefs(SubSeq(unique_sources, 1, n - 1))
           \o <<ToString(n), ". [", unique_sources[n][1], "](",
                unique_sources[n][2], ")\n\n">>

\* source_link as a function of its argument (the bucket is fixed):
\* [exc |-> "none" or the exception raised, refs |-> refs_str,
\*  nfetch |-> number of file.get() calls]
RECURSIVE SourceLinkLoop(_, _, _)
SourceLinkLoop(input_source_list, source_dict_list, nfetch) ==
  IF input_source_list = << >>
  THEN [exc |-> "none", refs |-> RenderRefs(OrderedUnique(source_dict_list)),
        nfetch |-> nfetch]
  ELSE LET r == Resolve(Head(input_source_list))
           n == IF r.fetched THEN nfetch + 1 ELSE nfetch
       IN  IF r.status = "ok"
           THEN SourceLinkLoop(Tail(input_source_list),
                               Append(source_dict_list, r.pair), n)
           ELSE IF r.status = "skip"
           THEN SourceLinkLoop(Tail(input_source_list), source_dict_list, n)
           ELSE [exc |-> r.status, refs |-> << >>, nfetch |-> n]

source_link(input_source_list) == SourceLinkLoop(input_source_list, << >>, 0)

\* ------------------------------------------------- traces and events
\* event["trace"]["trace"]: the fields the code looks at.
\*   hasOrch: "orchestrationTrace" present; hasObs: "observation" present;
\*   type: observation["type"]; text: actionGroupInvocationOutput.text;
\*   hasKb: "knowledgeBaseLookupOutput" present; refs: retrievedReferences,
\*   each [s3 |-> location has "s3Location", uri |-> its uri]
MkTrace(ho, hb, ty, tx, hk, rf) ==
  [hasOrch |-> ho, hasObs |-> hb, type |-> ty, text |-> tx, hasKb |-> hk, refs |-> rf]

PreProcessingTrace == MkTrace(FALSE, FALSE, "", << >>, FALSE, << >>)
RationaleTrace == MkTrace(TRUE, FALSE, "", << >>, FALSE, << >>)
FinishTrace == MkTrace(TRUE, TRUE, "FINISH", << >>, FALSE, << >>)
ActionGroupTrace(tx) == MkTrace(TRUE, TRUE, "ACTION_GROUP", tx, FALSE, << >>)
KbTrace(rf) == MkTrace(TRUE, TRUE, "KNOWLEDGE_BASE", << >>, TRUE, rf)

S3Ref(k) == [s3 |-> TRUE, uri |-> k]
WebRef == [s3 |-> FALSE, uri |-> << >>]

\* action-group output texts used in event streams
AGTexts == { <<"SELECT", "x", "\n", "Returned information">>,
             <<"select", "x", "\n">>,
             <<"SELECT", "x">>,
             <<"x">> }

\* retrievedReferences lists used in event streams
KbRefLists == { <<S3Ref(KeyA), S3Ref(KeyB)>>,
                <<S3Ref(KeyBin), S3Ref(KeyA2)>>,
                <<WebRef>> }

Traces == {PreProcessingTrace, RationaleTrace, FinishTrace}
          \cup {ActionGroupTrace(tx) : tx \in AGTexts}
          \cup {KbTrace(rf) : rf \in KbRefLists}

ChunkPayloads == { <<65>>, <<195, 169>>, <<255>> }

OtherEvent == [hasTrace |-> FALSE, trace |-> PreProcessingTrace,
               hasChunk |-> FALSE, bytes |-> << >>]
TraceEvent(t) == [hasTrace |-> TRUE, trace |-> t, hasChunk |-> FALSE, bytes |-> << >>]
ChunkEvent(b) == [hasTrace |-> FALSE, trace |-> PreProcessingTrace,
                  hasChunk |-> TRUE, bytes |-> b]

Events == {OtherEvent} \cup {TraceEvent(t) : t \in Traces}
          \cup {ChunkEvent(b) : b \in ChunkPayloads}

Streams == UNION {[1..n -> Events] : n \in 0..MaxEvents}

\* what invoke_agent can return
Responses == {[hasCompletion |-> FALSE, completion |-> << >>]}
             \cup {[hasCompletion |-> TRUE, completion |-> st] : st \in Streams}

\* the loop "for t in trace_list" of get_agent_response: every
\* ACTION_GROUP observation overwrites sql_query_from_llm
RECURSIVE ScanActionGroups(_, _)
ScanActionGroups(trace_list, sql) ==
  IF trace_list = << >> THEN sql
  ELSE LET t == Head(trace_list)
       IN  IF t.hasOrch /\ t.hasObs /\ t.type = "ACTION_GROUP"
           THEN ScanActionGroups(Tail(trace_list), extract_sql_query(t.text))
           ELSE ScanActionGroups(Tail(trace_list), sql)

\* the inner loop "for rl in ref_list": rl['location']['s3Location']['uri']
\* raises KeyError for a reference without s3Location
RECURSIVE RefUris(_)
RefUris(ref_list) ==
  IF ref_list = << >> THEN [raised |-> FALSE, l |-> << >>]
  ELSE IF ~Head(ref_list).s3 THEN [raised |-> TRUE, l |-> << >>]
  ELSE LET r == RefUris(Tail(ref_list))
       IN  IF r.raised THEN r
           ELSE [raised |-> FALSE, l |-> <<Head(ref_list).uri>> \o r.l]

\* extract_source_list_from_kb: returns inside the loop at the first
\* trace with knowledgeBaseLookupOutput; falls off the end (None) otherwise
RECURSIVE extract_source_list_from_kb(_)
extract_source_list_from_kb(trace_list) ==
  IF trace_list = << >> THEN [raised |-> FALSE, val |-> PyNone]
  ELSE LET trace == Head(trace_list)
       IN  IF trace.hasOrch /\ trace.hasObs /\ trace.hasKb
           THEN LET r == RefUris(trace.refs)
                IN  IF r.raised THEN [raised |-> TRUE, val |-> PyNone]
                    ELSE [raised |-> FALSE, val |-> PyList(r.l)]
           ELSE extract_source_list_from_kb(Tail(trace_list))

\* lines 70-77: the provenance chosen from sql_query_from_llm and the
\* knowledge-base scan (an exception in the scan gives "")
ResolveProvenance(sql, trace_list) ==
  IF Truthy(sql) THEN sql
  ELSE LET r == extract_source_list_from_kb(trace_list)
       IN  IF r.raised THEN PyStr(<< >>) ELSE r.val

\* ------------------------------------------------------------- state
VARIABLES
  pc,                  \* position of the request in the handler
  exc,                 \* "none", or the exception that ended the request
  streaming_response,  \* what invoke_agent returned
  idx,                 \* position of the loop over response["completion"]
  trace_list,          \* get_agent_response: collected event["trace"]
  chunk_text,          \* get_agent_response: last decoded chunk / unbound
  sql_query_from_llm,  \* get_agent_response: result of the first scan
  ret,                 \* the value get_agent_response returned
  response,            \* lambda_handler: the answer
  source_file_list,    \* lambda_handler: the provenance
  i,                   \* source_link: position in input_source_list
  source_dict_list,    \* source_link: resolved (title, link) pairs
  fetches,             \* number of object-store reads of the request
  reference_str,       \* lambda_handler: the formatted references
  output,              \* lambda_handler: the response body
  input_string,        \* extract_sql_query: its argument (SpecSql)
  sql_result           \* extract_sql_query: its result (SpecSql)

vars == <<pc, exc, streaming_response, idx, trace_list, chunk_text,
          sql_query_from_llm, ret, response, source_file_list, i,
          source_dict_list, fetches, reference_str, output,
          input_string, sql_result>>

NoResponse == [hasCompletion |-> FALSE, completion |-> << >>]
NoRet == [tuple |-> FALSE, str |-> << >>, text |-> << >>, src |-> PyNone]
NoOutput == [set |-> FALSE, answer |-> << >>, source |-> PyNone]

garVars == <<streaming_response, idx, trace_list, chunk_text,
             sql_query_from_llm, ret>>
linkVars == <<i, source_dict_list, fetches>>
sqlVars == <<input_string, sql_result>>

\* everything but pc
Blank ==
  /\ exc = "none"
  /\ streaming_response = NoResponse
  /\ idx = 1
  /\ trace_list = << >>
  /\ chunk_text = Unbound
  /\ sql_query_from_llm = PyNone
  /\ ret = NoRet
  /\ response = << >>
  /\ source_file_list = PyNone
  /\ i = 1
  /\ source_dict_list = << >>
  /\ fetches = 0
  /\ reference_str = PyNone
  /\ output = NoOutput
  /\ input_string = << >>
  /\ sql_result = PyNone

Init == pc = "lambda_handler" /\ Blank

\* raise: the request ends with exception e
Raise(e) == pc' = "raised" /\ exc' = e

\* ------------------------------------------------------ lambda_handler
\* line 127: body = json.loads(event["body"]); body["query"],
\* body["session_id"] raise KeyError when absent
ParseBody ==
  /\ pc = "lambda_handler"
  /\ \E has_query \in BOOLEAN, has_session_id \in BOOLEAN :
        IF has_query /\ has_session_id
        THEN pc' = "invoke_agent" /\ exc' = exc
        ELSE Raise("KeyError")
  /\ UNCHANGED <<garVars, response, source_file_list, linkVars,
                 reference_str, output, sqlVars>>

\* line 129 / invoke_agent: the upstream call returns some response
InvokeAgent ==
  /\ pc = "invoke_agent"
  /\ \E r \in Responses : streaming_response' = r
  /\ pc' = "get_agent_response"
  /\ UNCHANGED <<exc, idx, trace_list, chunk_text, sql_query_from_llm, ret,
                 response, source_file_list, linkVars, reference_str,
                 output, sqlVars>>

\* f"No completion found in response: {response}"
Diagnostic == <<"No completion found in response: ", "{...}">>

\* lines 51-53: without "completion" a bare str is returned
GetAgentResponseEnter ==
  /\ pc = "get_agent_response"
  /\ IF ~streaming_response.hasCompletion
     THEN /\ ret' = [tuple |-> FALSE, str |-> Diagnostic, text |-> << >>,
                     src |-> PyNone]
          /\ pc' = "unpack"
     ELSE /\ ret' = ret
          /\ pc' = "consume"
  /\ trace_list' = << >>
  /\ idx' = 1
  /\ UNCHANGED <<exc, streaming_response, chunk_text, sql_query_from_llm,
                 response, source_file_list, linkVars, reference_str,
                 output, sqlVars>>

\* only the first chunk is kept
ChunkTextFirstWins(cur, text) == IF cur.bound THEN cur ELSE Bound(text)

\* line 61: chunk_text = chunk_bytes.decode("utf-8") overwrites
ChunkTextAfter(cur, text) == Bound(text)

\* lines 54-62: one iteration of "for event in response["completion"]"
ConsumeEvent ==
  /\ pc = "consume"
  /\ idx <= Len(streaming_response.completion)
  /\ LET event == streaming_response.completion[idx]
         dec == Utf8Decode(event.bytes)
     IN  /\ trace_list' = IF event.hasTrace
                          THEN Append(trace_list, event.trace)
                          ELSE trace_list
         /\ IF event.hasChunk /\ ~dec.ok
            THEN Raise("UnicodeDecodeError") /\ chunk_text' = chunk_text
            ELSE /\ chunk_text' = IF event.hasChunk
                                  THEN ChunkTextAfter(chunk_text, dec.text)
                                  ELSE chunk_text
                 /\ pc' = pc /\ exc' = exc
  /\ idx' = idx + 1
  /\ UNCHANGED <<streaming_response, sql_query_from_llm, ret, response,
                 source_file_list, linkVars, reference_str, output, sqlVars>>

\* lines 63-78: after the stream is consumed, scan trace_list, choose the
\* provenance and return (chunk_text, source_file_list); chunk_text is
\* unbound when no chunk event was seen (UnboundLocalError)
ScanTraces ==
  /\ pc = "consume"
  /\ idx > Len(streaming_response.completion)
  /\ sql_query_from_llm' = ScanActionGroups(trace_list, PyNone)
  /\ IF ~chunk_text.bound
     THEN Raise("UnboundLocalError") /\ ret' = ret
     ELSE /\ ret' = [tuple |-> TRUE, str |-> << >>, text |-> chunk_text.v,
                     src |-> ResolveProvenance(sql_query_from_llm', trace_list)]
          /\ pc' = "unpack" /\ exc' = exc
  /\ UNCHANGED <<streaming_response, idx, trace_list, chunk_text, response,
                 source_file_list, linkVars, reference_str, output, sqlVars>>

\* line 130: response, source_file_list = get_agent_response(...);
\* unpacking the diagnostic str (longer than two characters) raises
\* ValueError
Unpack ==
  /\ pc = "unpack"
  /\ IF ret.tuple
     THEN /\ response' = ret.text
          /\ source_file_list' = ret.src
          /\ pc' = "route" /\ exc' = exc
     ELSE /\ Raise("ValueError")
          /\ UNCHANGED <<response, source_file_list>>
  /\ UNCHANGED <<garVars, linkVars, reference_str, output, sqlVars>>

\* anything but None is sent to source_link
IsListNotNone(v) == v.t # "None"

\* line 132: isinstance(source_file_list, list)
IsList(v) == v.t = "list"

\* lines 132-135: the citation list is built only for a list
Route ==
  /\ pc = "route"
  /\ IF IsList(source_file_list)
     THEN /\ pc' = "source_link"
          /\ reference_str' = reference_str
     ELSE /\ pc' = "return"
          /\ reference_str' = source_file_list
  /\ i' = 1
  /\ source_dict_list' = << >>
  /\ UNCHANGED <<exc, garVars, response, source_file_list, fetches, output,
                 sqlVars>>

\* lines 93-107: one iteration of the loop of source_link
SourceLinkStep ==
  /\ pc = "source_link"
  /\ i <= Len(source_file_list.l)
  /\ LET r == Resolve(source_file_list.l[i])
     IN  /\ fetches' = IF r.fetched THEN fetches + 1 ELSE fetches
         /\ source_dict_list' = IF r.status = "ok"
                                THEN Append(source_dict_list, r.pair)
                                ELSE source_dict_list
         /\ IF r.status \in {"ok", "skip"}
            THEN pc' = pc /\ exc' = exc
            ELSE Raise(r.status)
  /\ i' = i + 1
  /\ UNCHANGED <<garVars, response, source_file_list, reference_str, output,
                 sqlVars>>

\* lines 108-112 and 133: dedupe, render, reference_str = refs_str
SourceLinkRender ==
  /\ pc = "source_link"
  /\ i > Len(source_file_list.l)
  /\ reference_str' = PyStr(RenderRefs(OrderedUnique(source_dict_list)))
  /\ pc' = "return"
  /\ UNCHANGED <<exc, garVars, response, source_file_list, linkVars, output,
                 sqlVars>>

\* lines 139-141: output = {"answer": response, "source": reference_str}
Return ==
  /\ pc = "return"
  /\ output' = [set |-> TRUE, answer |-> response, source |-> reference_str]
  /\ pc' = "done"
  /\ UNCHANGED <<exc, garVars, response, source_file_list, linkVars,
                 reference_str, sqlVars>>

Next ==
  \/ ParseBody
  \/ InvokeAgent
  \/ GetAgentResponseEnter
  \/ ConsumeEvent
  \/ ScanTraces
  \/ Unpack
  \/ Route
  \/ SourceLinkStep
  \/ SourceLinkRender
  \/ Return

Spec == Init /\ [][Next]_vars

\* ------------------------------------------- source_link on its own
Keys == {KeyA, KeyA2, KeyB, KeyBin, KeyNoUrl, KeyDbl, KeyNoScheme}

KeyLists == UNION {[1..n -> Keys] : n \in 0..MaxKeys}

\* source_link called with an arbitrary key sequence
InitLink ==
  /\ pc = "source_link"
  /\ exc = "none"
  /\ streaming_response = NoResponse
  /\ idx = 1
  /\ trace_list = << >>
  /\ chunk_text = Unbound
  /\ sql_query_from_llm = PyNone
  /\ ret = NoRet
  /\ response = << >>
  /\ \E ks \in KeyLists : source_file_list = PyList(ks)
  /\ i = 1
  /\ source_dict_list = << >>
  /\ fetches = 0
  /\ reference_str = PyNone
  /\ output = NoOutput
  /\ input_string = << >>
  /\ sql_result = PyNone

NextLink ==
  \/ SourceLinkStep
  \/ SourceLinkRender

SpecLink == InitLink /\ [][NextLink]_vars

\* --------------------------------------- extract_sql_query on its own
Tokens == {"SELECT", "select", "x", " ", "\n",
           "Returned information", "RETURNED INFORMATION"}

Texts == UNION {[1..n -> Tokens] : n \in 0..MaxText}

InitSql ==
  /\ pc = "extract_sql_query"
  /\ exc = "none"
  /\ streaming_response = NoResponse
  /\ idx = 1
  /\ trace_list = << >>
  /\ chunk_text = Unbound
  /\ sql_query_from_llm = PyNone
  /\ ret = NoRet
  /\ response = << >>
  /\ source_file_list = PyNone
  /\ i = 1
  /\ source_dict_list = << >>
  /\ fetches = 0
  /\ reference_str = PyNone
  /\ output = NoOutput
  /\ input_string \in Texts
  /\ sql_result = PyNone

\* lines 114-120
ExtractSqlQuery ==
  /\ pc = "extract_sql_query"
  /\ sql_result' = extract_sql_query(input_string)
  /\ pc' = "extracted"
  /\ UNCHANGED <<exc, garVars, response, source_file_list, linkVars,
                 reference_str, output, input_string>>

NextSql == ExtractSqlQuery

SpecSql == InitSql /\ [][NextSql]_vars

\* ============================================================ properties
Completion == streaming_response.completion

IsActionGroup(t) == t.hasOrch /\ t.hasObs /\ t.type = "ACTION_GROUP"
IsKbLookup(t) == t.hasOrch /\ t.hasObs /\ t.hasKb

\* the traces of the stream, in stream order
StreamTraces ==
  LET ev == SelectSeq(Completion, LAMBDA e : e.hasTrace)
  IN  [j \in 1..Len(ev) |-> ev[j].trace]

\* some ACTION_GROUP observation of the stream yields a query
SomeQueryYielded ==
  \E j \in 1..Len(StreamTraces) :
     /\ IsActionGroup(StreamTraces[j])
     /\ Truthy(extract_sql_query(StreamTraces[j].text))

\* get_agent_response returned a pair
ReturnedPair == ret.tuple

\* the request is past get_agent_response
PastGetAgentResponse ==
  pc \notin {"lambda_handler", "invoke_agent", "get_agent_response", "consume",
             "source_link", "extract_sql_query", "extracted"}
  \/ (pc = "source_link" /\ ret.tuple)

\* C1: if some trace of the stream is an ACTION_GROUP observation whose
\* text yields a non-empty query, the provenance get_agent_response
\* returns is a generated query (one of the queries extracted from the
\* stream), never a list of storage keys and never None.
C1_QueryWins ==
  (ReturnedPair /\ SomeQueryYielded) =>
     /\ ret.src.t = "str"
     /\ \E j \in 1..Len(StreamTraces) :
           /\ IsActionGroup(StreamTraces[j])
           /\ ret.src = extract_sql_query(StreamTraces[j].text)

\* storage URIs of every reference of every knowledge-base observation,
\* traces in stream order, references in their order within a trace
RECURSIVE AllKbUris(_)
AllKbUris(ts) ==
  IF ts = << >> THEN << >>
  ELSE (IF IsKbLookup(Head(ts))
        THEN [j \in 1..Len(Head(ts).refs) |-> Head(ts).refs[j].uri]
        ELSE << >>) \o AllKbUris(Tail(ts))

AllRefsS3 ==
  \A j \in 1..Len(StreamTraces) :
     \A k \in 1..Len(StreamTraces[j].refs) : StreamTraces[j].refs[k].s3

SomeKbLookup == \E j \in 1..Len(StreamTraces) : IsKbLookup(StreamTraces[j])

\* C2: when no trace yields a generated query, the retrieved-references
\* provenance holds the URI of every reference of every knowledge-base
\* observation of the stream, in stream order (second and later
\* knowledge-base traces included).
C2_AllKbReferences ==
  (ReturnedPair /\ ~SomeQueryYielded /\ SomeKbLookup /\ AllRefsS3) =>
     ret.src = PyList(AllKbUris(StreamTraces))

\* the upstream response had no completion wrapper
NoCompletionCase == pc \in {"unpack", "route", "return", "done", "raised"}
                    /\ ~ret.tuple /\ ret.str = Diagnostic

\* C3: without a completion wrapper the pipeline does not fail: the
\* diagnostic string is the answer, provenance is empty, and
\* lambda_handler returns normally with that answer and an empty source.
C3_NoCompletionReturnsNormally ==
  NoCompletionCase =>
     /\ pc # "raised"
     /\ pc = "done" => /\ output.answer = Diagnostic
                       /\ ~Truthy(output.source)

\* the knowledge-base scan of the stream raises
KbScanRaises == extract_source_list_from_kb(StreamTraces).raised

\* C4: whenever provenance is None (no ACTION_GROUP observation yields a
\* query and no knowledge-base observation exists, or the knowledge-base
\* scan raised), the source field of the response is the empty string.
C4_NoneProvenanceEmptySource ==
  (pc = "done" /\ ~SomeQueryYielded /\ (~SomeKbLookup \/ KbScanRaises)) =>
     output.source = PyStr(<< >>)

\* position of the first SELECT of a text
FirstSelect(s) == Min({j \in 1..Len(s) : IsSelect(s[j])})

\* position e holds a newline that starts a line made of optional
\* whitespace and then the phrase 'Returned information'
LineOfReturnedInfo(s, e) ==
  /\ s[e] = "\n"
  /\ \E k \in (e + 1)..Len(s) :
        /\ \A j \in (e + 1)..(k - 1) : IsSpace(s[j])
        /\ IsReturnedInfo(s[k])

\* what C5 says extract_sql_query returns
ClaimedQuery(s) ==
  IF \A j \in 1..Len(s) : ~IsSelect(s[j]) THEN PyNone
  ELSE LET st == FirstSelect(s)
           ends == {e \in (st + 1)..Len(s) : LineOfReturnedInfo(s, e)}
           stop == IF ends = {} THEN Len(s) + 1 ELSE Min(ends)
       IN  PyStr(Strip(SubSeq(s, st, stop - 1)))

\* C5: extract_sql_query returns None only when the text has no SELECT;
\* otherwise it returns the trimmed span from the first SELECT up to the
\* first following line that begins with optional whitespace and
\* 'Returned information', or up to the end of the text when there is no
\* such line.
C5_ExtractContract ==
  pc = "extracted" => sql_result = ClaimedQuery(input_string)

ChunkPositions == {j \in 1..Len(Completion) : Completion[j].hasChunk}

Max(S) == CHOOSE x \in S : \A y \in S : x >= y

\* C6: for a stream with a completion wrapper and at least one chunk
\* event, the answer text get_agent_response returns is the UTF-8 decoding
\* of the payload of the last chunk event in stream order.
C6_AnswerIsLastChunk ==
  (ReturnedPair /\ ChunkPositions # {}) =>
     ret.text = Utf8Decode(Completion[Max(ChunkPositions)].bytes).text

\* two different chunks, trace events between and after them
C6_Witness ==
  /\ ReturnedPair
  /\ Cardinality(ChunkPositions) >= 2
  /\ Completion[Min(ChunkPositions)].bytes # Completion[Max(ChunkPositions)].bytes
  /\ Max(ChunkPositions) < Len(Completion)
  /\ ret.text = <<233>>

KeysIn == source_file_list.l

\* every key of the sequence resolves to a record
AllResolve == \A j \in 1..Len(KeysIn) : Resolve(KeysIn[j]).status = "ok"

PairAt(j) == Resolve(KeysIn[j]).pair
DistinctPairs == {PairAt(j) : j \in 1..Len(KeysIn)}
FirstOccurrence(p) == Min({j \in 1..Len(KeysIn) : PairAt(j) = p})

\* s is the rendering of the entries u, numbered from 1
IsRendering(s, u) ==
  /\ Len(s) = 6 * Len(u)
  /\ \A j \in 1..Len(u) :
        SubSeq(s, 6 * j - 5, 6 * j)
           = <<ToString(j), ". [", u[j][1], "](", u[j][2], ")\n\n">>

\* C7: for a key sequence whose objects all decode and parse, source_link
\* renders exactly one entry per distinct (title, link) pair, in the order
\* of first occurrence, numbered consecutively from 1; the empty key
\* sequence yields the empty string.
C7_OneEntryPerDistinctPair ==
  AllResolve =>
     /\ pc # "raised"
     /\ pc = "return" =>
          /\ \E u \in [1..Cardinality(DistinctPairs) -> DistinctPairs] :
                /\ \A a, b \in 1..Len(u) :
                      a < b => FirstOccurrence(u[a]) < FirstOccurrence(u[b])
                /\ IsRendering(reference_str.s, u)
          /\ KeysIn = << >> => reference_str = PyStr(<< >>)

\* a repeated pair after a different one: two entries, numbered 1 and 2
C7_Witness ==
  /\ pc = "return"
  /\ AllResolve
  /\ KeysIn = <<KeyA, KeyB, KeyA2>>
  /\ reference_str.s = <<"1", ". [", "A", "](", "L1", ")\n\n",
                         "2", ". [", "B", "](", "L2", ")\n\n">>

\* the object of the key is fetched and its bytes are not valid UTF-8
Undecodable(k) ==
  /\ Locate(k).ok
  /\ S3Get(Locate(k).bucket, Locate(k).obj).found
  /\ ~Utf8Decode(S3Get(Locate(k).bucket, Locate(k).obj).bytes).ok

DecodableKeys == SelectSeq(KeysIn, LAMBDA k : ~Undecodable(k))

\* C8: an object whose bytes are not valid UTF-8 does not abort the batch:
\* source_link ends as it does for the same key sequence with the
\* undecodable keys removed, with the same output.
C8_UndecodableSkipped ==
  pc \in {"return", "raised"} =>
     /\ exc = source_link(DecodableKeys).exc
     /\ pc = "return" => reference_str.s = source_link(DecodableKeys).refs

\* an undecodable object between two records
C8_Witness ==
  /\ pc = "return"
  /\ KeysIn = <<KeyA, KeyBin, KeyB>>
  /\ reference_str.s = <<"1", ". [", "A", "](", "L1", ")\n\n",
                         "2", ". [", "B", "](", "L2", ")\n\n">>

\* C9: when provenance is a generated query the handler returns the query
\* text unchanged as the formatted references and no object is fetched
\* during the request; objects are fetched only for a list of keys.
C9_QueryVerbatimNoFetch ==
  /\ fetches > 0 => source_file_list.t = "list"
  /\ (pc = "done" /\ Truthy(sql_query_from_llm)) =>
        /\ output.source = sql_query_from_llm
        /\ fetches = 0

\* a query and a knowledge-base observation in the same stream
C9_Witness ==
  /\ pc = "done"
  /\ Truthy(sql_query_from_llm)
  /\ SomeKbLookup
  /\ output.source = PyStr(<<"SELECT", "x">>)
  /\ fetches = 0

AllChunksDecode ==
  \A j \in ChunkPositions : Utf8Decode(Completion[j].bytes).ok

\* C10: for every finite event stream inside a completion wrapper
\* (including one with no chunk event, or empty) get_agent_response
\* terminates normally and returns a pair whose first component is a
\* string.
C10_AlwaysReturnsPair ==
  (streaming_response.hasCompletion /\ AllChunksDecode /\ PastGetAgentResponse)
     => ReturnedPair

====
